---- MODULE Spec2Model ----
(***************************************************************************)
(* Trace mutators of tlspuffin (src/src/fuzzer/mutations.rs).              *)
(*                                                                         *)
(* A trace is a list of steps; an Input step carries a recipe term.  The   *)
(* five mutators handed to the fuzzer (Repeat, Skip, Replace-Reuse,        *)
(* Replace-Match, Remove-and-Lift) are modelled as operators that map a    *)
(* trace and the values drawn from the random source to the returned       *)
(* MutationResult and the trace left behind; one action per mutator draws  *)
(* the random values from the sets the code samples from.                  *)
(*                                                                         *)
(* The helpers of fuzzer::mutations_util and of the Term type              *)
(* (choose_term, choose_term_mut, get_type_shape, Term::mutate,            *)
(* Function::change_function) are defined elsewhere in the crate; they     *)
(* are modelled from sections 3, 4.2 and 4.6 of the specification.         *)
(*                                                                         *)
(* Further specifications, each over its own variables: SpecSignature      *)
(* (Signature::new and the static Lazy<Signature>, term/signature.rs),     *)
(* SpecAgentName (AgentName, agent.rs), SpecPut (the OpenSSL agent,        *)
(* tlspuffin/src/openssl/mod.rs), SpecEval (evaluation of terms over the   *)
(* registered function symbols, term/op_impl.rs), SpecExec (execution of   *)
(* the seed trace, fuzzer/seeds.rs and put_registry.rs), SpecAttack        *)
(* (op_attack_cve_2021_3449), SpecRng (make_deterministic), SpecRepeat     *)
(* and SpecSkip (one mutator applied again and again), SpecClaims and      *)
(* SpecClaimData (the claim listener of the OpenSSL agent) and SpecEvents  *)
(* (the terminal events, fuzzer/terminal_stats.rs).                        *)
(***************************************************************************)
EXTENDS Integers, Sequences, FiniteSets, TLC

VARIABLES
    trace,      \* the Trace being mutated: [steps |-> sequence of Step]
    mutator,    \* Named::name() of the mutator applied last ("" initially)
    result,     \* the MutationResult it returned ("" initially)
    before,     \* history: the trace as it was when that mutator was called
    choice,     \* history: what the random source selected in that call
    n_initial,  \* history: number of steps of the initial trace
    n_mutated,  \* history: number of Mutated results counted by SkipStep
    n_skipped,  \* history: number of Skipped results counted by SkipStep
    definitions,  \* the Vec<FunctionDefinition> define_signature! hands to Signature::new
    SIGNATURE,    \* the static Lazy<Signature>: [state, value]
    pc,           \* per executor thread: where it is in its access to SIGNATURE
    n_init,       \* history: number of times the initialiser closure has run
    seen,         \* history: per thread, the Signature its last access gave it
    last_name,    \* the byte of the AgentName derived last (of the sentinel at first)
    names,        \* history: the bytes of the names derived so far, in order
    name_panicked, \* the addition in AgentName::new has panicked
    puts,         \* per slot, the OpenSSL agent made there: [status, name, successful]
    claimers,     \* per slot, the claim listeners registered for its SSL object
    put_result,   \* history: the last operation on an agent and what it returned
    eval_term,    \* the term that is evaluated
    knowledge,    \* the value the knowledge store holds for the term's variable
    eval_values,  \* history: the values the evaluations of eval_term gave, in order
    exec_pos, \* number of steps of seed_successful executed so far
    completed, \* the ids of the Output steps executed so far
    observations, \* the knowledge: one entry per outbound message taken, in order
    exec_status, \* "running", "done", or "aborted" by a panic
    n_reported, \* history: number of parse failures reported
    premature, \* history: a Variable was evaluated before its Output step had run
    extensions, \* the Vec<ClientExtension> handed to op_attack_cve_2021_3449
    attack_original, \* history: that Vec as it was before the first call
    attack_results, \* history: what the successive calls returned, in order
    build, \* the cargo features the crate is built with
    rng, \* the state of the random byte generator of the library
    made_deterministic, \* OpenSSL::make_deterministic has been called
    rand_outputs, \* history: the first bytes rand_bytes gave, run by run
    configs, \* the PutConfig of each agent: [typ, tls_version]
    claims, \* the claim list the agents share (PutConfig.claims)
    last_claim, \* history: the claim the library handed to a listener last
    channel, \* the events sent and not yet received (mpsc::channel), oldest first
    rx_alive, \* the Receiver of Events exists
    tick_pc, \* where the tick thread is: "send", "sleep" or "stopped"
    input_pc, \* where the input thread is: "keys" or "stopped"
    keys_read, \* number of keys the input thread has read from stdin
    q_sent, \* history: number of q keys the input thread has sent
    sigints, \* number of SIGINT raised by display
    displayed \* history: what the last call of display found and handled

mutationvars == <<trace, mutator, result, before, choice, n_initial, n_mutated, n_skipped>>
sigvars == <<definitions, SIGNATURE, pc, n_init, seen>>
namevars == <<last_name, names, name_panicked>>
putvars == <<puts, claimers, put_result>>
evalvars == <<eval_term, knowledge, eval_values>>
execvars == <<exec_pos, completed, observations, exec_status, n_reported, premature>>
attackvars == <<extensions, attack_original, attack_results>>
rngvars == <<build, rng, made_deterministic, rand_outputs>>
claimvars == <<configs, claims, last_claim>>
eventvars == <<channel, rx_alive, tick_pc, input_pc, keys_read, q_sent, sigints, displayed>>

vars == <<mutationvars, sigvars, namevars, putvars, evalvars, execvars, attackvars, rngvars, claimvars, eventvars>>

\* What each specification leaves alone.
nonmutation == <<sigvars, namevars, putvars, evalvars, execvars, attackvars, rngvars, claimvars, eventvars>>
nonsig == <<mutationvars, namevars, putvars, evalvars, execvars, attackvars, rngvars, claimvars, eventvars>>
nonname == <<mutationvars, sigvars, putvars, evalvars, execvars, attackvars, rngvars, claimvars, eventvars>>
nonput == <<mutationvars, sigvars, namevars, evalvars, execvars, attackvars, rngvars, claimvars, eventvars>>
noneval == <<mutationvars, sigvars, namevars, putvars, execvars, attackvars, rngvars, claimvars, eventvars>>
nonexec == <<mutationvars, sigvars, namevars, putvars, evalvars, attackvars, rngvars, claimvars, eventvars>>
nonattack == <<mutationvars, sigvars, namevars, putvars, evalvars, execvars, rngvars, claimvars, eventvars>>
nonrng == <<mutationvars, sigvars, namevars, putvars, evalvars, execvars, attackvars, claimvars, eventvars>>
nonclaim == <<mutationvars, sigvars, namevars, putvars, evalvars, execvars, attackvars, rngvars, eventvars>>
nonevent == <<mutationvars, sigvars, namevars, putvars, evalvars, execvars, attackvars, rngvars, claimvars>>

(***************************************************************************)
(* Bounds of the model.                                                    *)
(***************************************************************************)
\* Repeat is not applied to a trace that already has MaxSteps steps.
MaxSteps == 2
\* Replace-Reuse is not applied when it would grow a recipe beyond MaxTermSize nodes.
MaxTermSize == 3
\* Length of the longest trace Skip is applied to repeatedly.
SkipLen == 5

\* The longest trace Repeat starts from, and the longest one it is applied to.
RepeatLen == 3
MaxRepeated == 4
\* Number of Skipped results counted once the trace is empty.
MaxSkipped == 2

(***************************************************************************)
(* Type shapes, function shapes, terms.                                    *)
(***************************************************************************)
\* A (DynamicFunctionShape, DynamicFunction) pair; the erased callable is
\* identified by the name of the function it wraps.
FunctionDefinition(name, argument_types, return_type) ==
    [name |-> name, argument_types |-> argument_types, return_type |-> return_type]

fn_zero == FunctionDefinition("fn_zero", <<>>, "u64")
fn_one  == FunctionDefinition("fn_one", <<>>, "u64")
fn_neg  == FunctionDefinition("fn_neg", <<"u64">>, "u64")
fn_pair == FunctionDefinition("fn_pair", <<"u64", "Payload">>, "u64")

\* SIGNATURE.functions: the catalog Replace-Match samples from.  Two constants
\* of one shape, a unary function whose argument type is its return type, and
\* a binary function.
SIGNATURE_functions == <<fn_zero, fn_one, fn_neg, fn_pair>>

\* Term::Variable: the type shape and the observation it refers to.
Variable(type_shape, observed_id) ==
    [tag |-> "Variable", type_shape |-> type_shape, observed_id |-> observed_id]

\* Term::Application(func, subterms)
Application(func, subterms) == [tag |-> "Application", func |-> func, subterms |-> subterms]

\* Term::get_type_shape: the output type of a term.
get_type_shape(term) ==
    IF term.tag = "Variable" THEN term.type_shape ELSE term.func.return_type

\* Sub-term iteration: the paths (child indices from the root) of all sub-terms.
RECURSIVE Paths(_)
Paths(term) ==
    {<<>>} \cup
    (IF term.tag = "Application"
     THEN UNION {{<<i>> \o p : p \in Paths(term.subterms[i])} : i \in DOMAIN term.subterms}
     ELSE {})

\* Number of nodes of a term.
size(term) == Cardinality(Paths(term))

RECURSIVE SubtermAt(_, _)
SubtermAt(term, path) ==
    IF path = <<>> THEN term ELSE SubtermAt(term.subterms[Head(path)], Tail(path))

RECURSIVE ReplaceAt(_, _, _)
ReplaceAt(term, path, new) ==
    IF path = <<>> THEN new
    ELSE [term EXCEPT !.subterms[Head(path)] = ReplaceAt(@, Tail(path), new)]

\* Structural typing invariant of section 3 of the specification.
RECURSIVE WellTyped(_)
WellTyped(term) ==
    \/ term.tag = "Variable"
    \/ /\ Len(term.subterms) = Len(term.func.argument_types)
       /\ \A i \in DOMAIN term.subterms :
            /\ get_type_shape(term.subterms[i]) = term.func.argument_types[i]
            /\ WellTyped(term.subterms[i])

(***************************************************************************)
(* Steps and traces.                                                       *)
(***************************************************************************)
OutputStep(agent, id) == [agent |-> agent, action |-> [tag |-> "Output", id |-> id]]
InputStep(agent, recipe) == [agent |-> agent, action |-> [tag |-> "Input", recipe |-> recipe]]

Trace(steps) == [steps |-> steps]

\* The steps that carry a recipe (InputAction).
InputSteps(tr) == {i \in DOMAIN tr.steps : tr.steps[i].action.tag = "Input"}

\* A position of a sub-term in a trace: the step (1-based) and the path in
\* that step's recipe.  None stands for Option::None.
None == [step |-> 0, path |-> <<>>]
Position(step, path) == [step |-> step, path |-> path]

TermPositions(tr) ==
    UNION {{Position(i, p) : p \in Paths(tr.steps[i].action.recipe)} : i \in InputSteps(tr)}

TermAt(tr, at) == SubtermAt(tr.steps[at.step].action.recipe, at.path)

WellTypedTrace(tr) == \A i \in InputSteps(tr) : WellTyped(tr.steps[i].action.recipe)

\* Total number of term nodes of a trace.
TraceSize(tr) == Cardinality(TermPositions(tr))

\* Rand::between(lo, hi): a value of the inclusive range.
between(lo, hi) == lo .. hi

\* Vec::insert(index, element) and Vec::remove(index), indices from 0.
\* insert_overwrite stores the element in place of the one at index;
\* swap_remove is Vec::swap_remove, which moves the last element to index.
insert_overwrite(steps, index, element) ==
    [i \in DOMAIN steps |-> IF i = index + 1 THEN element ELSE steps[i]]

swap_remove(steps, index) ==
    [i \in 1 .. (Len(steps) - 1) |-> IF i = index + 1 THEN steps[Len(steps)] ELSE steps[i]]

insert(steps, index, element) ==
    SubSeq(steps, 1, index) \o <<element>> \o SubSeq(steps, index + 1, Len(steps))

remove(steps, index) ==
    SubSeq(steps, 1, index) \o SubSeq(steps, index + 2, Len(steps))

(***************************************************************************)
(* Results of a call of Mutator::mutate.                                   *)
(***************************************************************************)
NoFunction == FunctionDefinition("", <<>>, "")
NoTerm == Variable("", <<0, 0>>)

\* What one call leaves behind: the MutationResult, the caller's trace, and
\* the owned local term the call worked on (NoTerm when there is none).
Outcome(res, tr, to_mutate) == [result |-> res, trace |-> tr, to_mutate |-> to_mutate]

NoChoice ==
    [step_index |-> -1, index |-> -1, replacement |-> None, target |-> None,
     requested |-> NoFunction, to_mutate |-> NoTerm]

(***************************************************************************)
(* Helpers of fuzzer::mutations_util and of Term.                          *)
(***************************************************************************)
\* choose_term(trace, rand): the values it can return, a sub-term of some
\* recipe of the trace, or None when the trace has no sub-term.
choose_term(tr) == IF TermPositions(tr) = {} THEN {None} ELSE TermPositions(tr)

\* choose_term_mut(trace, rand, filter): the values it can return, given the
\* positions whose term satisfies the filter: one of them, or None when no
\* sub-term satisfies it.
choose_term_mut(tr, matching) == IF matching = {} THEN {None} ELSE matching

\* Term::mutate(&mut self, other): the term the reference points to becomes a
\* clone of other.  Applied to a reference into the trace.
mutate(tr, at, other) ==
    [tr EXCEPT !.steps[at.step].action.recipe = ReplaceAt(@, at.path, other)]

\* Function::change_function(shape, dynamic_fn) on the function of an
\* Application: the sub-terms are not touched.
change_function(term, requested) == [term EXCEPT !.func = requested]

(***************************************************************************)
(* RepeatMutator                                                           *)
(***************************************************************************)
\* The range insert_index is drawn from.
RepeatInsertRange(length) == between(0, length - 1)

RepeatMutator_nocheck(tr, step_index, insert_index) ==
    Outcome("Mutated", tr, NoTerm)

RepeatMutator_mutate(tr, step_index, insert_index) ==
    LET steps == tr.steps
        length == Len(steps)
    IN  IF length = 0
        THEN Outcome("Skipped", tr, NoTerm)
        ELSE LET step == steps[step_index + 1]
             IN  Outcome("Mutated", [tr EXCEPT !.steps = insert(steps, insert_index, step)], NoTerm)

(***************************************************************************)
(* SkipMutator                                                             *)
(***************************************************************************)
SkipMutator_keep(tr, remove_index) ==
    IF Len(tr.steps) = 0 THEN Outcome("Skipped", tr, NoTerm) ELSE Outcome("Mutated", tr, NoTerm)

SkipMutator_mutate(tr, remove_index) ==
    LET steps == tr.steps
        length == Len(steps)
    IN  IF length = 0
        THEN Outcome("Skipped", tr, NoTerm)
        ELSE Outcome("Mutated", [tr EXCEPT !.steps = remove(steps, remove_index)], NoTerm)

(***************************************************************************)
(* ReplaceReuseMutator                                                     *)
(***************************************************************************)
ReplaceReuseFilter_any(term, replacement) == TRUE

\* The filter closure: the type shapes agree.
ReplaceReuseFilter(term, replacement) ==
    get_type_shape(term) = get_type_shape(replacement)

ReplaceReuseMatching(tr, replacement) ==
    {at \in TermPositions(tr) : ReplaceReuseFilter(TermAt(tr, at), replacement)}

\* replacement_at: what choose_term returned; to_replace_at: what
\* choose_term_mut returned (None when it was not called).
ReplaceReuseMutator_mutate(tr, replacement_at, to_replace_at) ==
    IF replacement_at # None /\ to_replace_at # None
    THEN LET replacement == TermAt(tr, replacement_at)
         IN  Outcome("Mutated", mutate(tr, to_replace_at, replacement), NoTerm)
    ELSE Outcome("Skipped", tr, NoTerm)

(***************************************************************************)
(* ReplaceMatchMutator                                                     *)
(***************************************************************************)
ReplaceMatchFilter_return(term, requested_shape) ==
    /\ term.tag = "Application"
    /\ term.func.return_type = requested_shape.return_type

\* The filter closure: an Application whose shape has the return type and the
\* argument types of the requested shape.
ReplaceMatchFilter(term, requested_shape) ==
    /\ term.tag = "Application"
    /\ term.func.return_type = requested_shape.return_type
    /\ term.func.argument_types = requested_shape.argument_types

ReplaceMatchMatching(tr, requested_shape) ==
    {at \in TermPositions(tr) : ReplaceMatchFilter(TermAt(tr, at), requested_shape)}

\* to_mutate is choose_term_mut(..).cloned(): an owned copy of the selected
\* term.  change_function acts on the copy, which is dropped on return.
ReplaceMatchMutator_mutate(tr, requested, to_mutate_at) ==
    IF to_mutate_at # None
    THEN LET to_mutate == TermAt(tr, to_mutate_at)
         IN  IF to_mutate.tag = "Variable"
             THEN Outcome("Skipped", tr, to_mutate)
             ELSE Outcome("Mutated", tr, change_function(to_mutate, requested))
    ELSE Outcome("Skipped", tr, NoTerm)

(***************************************************************************)
(* RemoveAndLiftMutator                                                    *)
(***************************************************************************)
\* The filter closure: an Application with exactly one argument, of the type
\* the Application returns.
RemoveAndLiftFilter(term) ==
    /\ term.tag = "Application"
    /\ Len(term.func.argument_types) = 1
    /\ Head(term.func.argument_types) = term.func.return_type

RemoveAndLiftMatching(tr) ==
    {at \in TermPositions(tr) : RemoveAndLiftFilter(TermAt(tr, at))}

\* to_mutate is choose_term_mut(..).cloned(): an owned copy of the selected
\* term.  The copy becomes its first sub-term and is dropped on return.
RemoveAndLiftMutator_mutate(tr, to_mutate_at) ==
    IF to_mutate_at # None
    THEN LET to_mutate == TermAt(tr, to_mutate_at)
         IN  IF to_mutate.tag = "Variable"
             THEN Outcome("Skipped", tr, to_mutate)
             ELSE LET subterm == to_mutate.subterms
                  IN  Outcome("Mutated", tr, Head(subterm))
    ELSE Outcome("Skipped", tr, NoTerm)

(***************************************************************************)
(* Initial traces.                                                         *)
(***************************************************************************)
\* AgentName(0) is NONE_AGENT; the first two names derived from it.
client == 1
server == 2

SeedTraces ==
    { Trace(<<>>),
      Trace(<<OutputStep(client, 0)>>),
      Trace(<<InputStep(server, Application(fn_pair,
                  <<Application(fn_pair,
                      <<Application(fn_zero, <<>>), Variable("Payload", <<0, 0>>)>>),
                    Variable("Payload", <<0, 0>>)>>))>>),
      Trace(<<OutputStep(client, 0),
              InputStep(server, Application(fn_neg,
                  <<Application(fn_pair,
                      <<Application(fn_one, <<>>), Variable("Payload", <<0, 0>>)>>)>>)),
              InputStep(server, Application(fn_zero, <<>>))>>) }

\* The traces Skip is applied to repeatedly: every list of at most SkipLen
\* steps made of an Output step and an Input step.
RECURSIVE StepLists(_)
StepLists(n) ==
    IF n = 0 THEN {<<>>}
    ELSE LET shorter == StepLists(n - 1)
         IN  shorter \cup
             {Append(steps, step) :
                 steps \in {l \in shorter : Len(l) = n - 1},
                 step \in {OutputStep(client, 0), InputStep(server, Application(fn_zero, <<>>))}}

InitHistory ==
    /\ mutator = ""
    /\ result = ""
    /\ before = trace
    /\ choice = NoChoice
    /\ n_initial = Len(trace.steps)
    /\ n_mutated = 0
    /\ n_skipped = 0

\* The Signature a Lazy cell holds before its initialiser has run: none.
NoSignature ==
    [functions |-> <<>>, functions_by_name |-> <<>>,
     functions_by_typ |-> <<>>, types_by_name |-> <<>>]

\* No thread has touched the static SIGNATURE.
SignatureUntouched ==
    /\ definitions = <<>>
    /\ SIGNATURE = [state |-> "Incomplete", value |-> NoSignature]
    /\ pc = <<>>
    /\ n_init = 0
    /\ seen = <<>>

\* const NONE_AGENT: AgentName = AgentName(0u8)
NONE_AGENT == 0

\* No name has been derived.
NoAgentNamed ==
    /\ last_name = NONE_AGENT
    /\ names = <<>>
    /\ name_panicked = FALSE

\* No agent has been made, no operation called.
SslResult(is_err, io_error, ssl_error) ==
    [is_err |-> is_err, io_error |-> io_error, ssl_error |-> ssl_error]

NoOperation ==
    [op |-> "", slot |-> 0, call |-> "", raw |-> SslResult(FALSE, "", FALSE), result |-> ""]

NoPut ==
    /\ puts = <<>>
    /\ claimers = <<>>
    /\ put_result = NoOperation

\* No term is evaluated.
NoEvaluation ==
    /\ eval_term = NoTerm
    /\ knowledge = ""
    /\ eval_values = <<>>

\* No trace is executed.
NoExecution ==
    /\ exec_pos = 0
    /\ completed = {}
    /\ observations = <<>>
    /\ exec_status = ""
    /\ n_reported = 0
    /\ premature = FALSE

\* op_attack_cve_2021_3449 has not been called.
NoAttack ==
    /\ extensions = <<>>
    /\ attack_original = <<>>
    /\ attack_results = <<>>

\* The library of no build is in use.
NoRng ==
    /\ build = {}
    /\ rng = ""
    /\ made_deterministic = FALSE
    /\ rand_outputs = <<>>

\* A claim of the library (security_claims::Claim): its type, its write flag
\* and its two master secret fields.
LibraryClaim(typ, write) ==
    [typ |-> typ, write |-> write,
     master_secret |-> "master_secret", master_secret_12 |-> "master_secret_12"]

NoLibraryClaim == [slot |-> 0, claim |-> LibraryClaim("", 0), after |-> ""]

\* No claim listener has been called.
NoClaims ==
    /\ configs = <<>>
    /\ claims = <<>>
    /\ last_claim = NoLibraryClaim

\* display has not been called.
NoDisplay == [pending |-> 0, result |-> "", event |-> ""]

\* No TerminalStats exists.
NoEvents ==
    /\ channel = <<>>
    /\ rx_alive = FALSE
    /\ tick_pc = ""
    /\ input_pc = ""
    /\ keys_read = 0
    /\ q_sent = 0
    /\ sigints = 0
    /\ displayed = NoDisplay

Init ==
    /\ trace \in SeedTraces
    /\ InitHistory
    /\ SignatureUntouched
    /\ NoAgentNamed
    /\ NoPut
    /\ NoEvaluation
    /\ NoExecution
    /\ NoAttack
    /\ NoRng
    /\ NoClaims
    /\ NoEvents

InitSkip ==
    /\ trace \in {Trace(steps) : steps \in StepLists(SkipLen)}
    /\ InitHistory
    /\ SignatureUntouched
    /\ NoAgentNamed
    /\ NoPut
    /\ NoEvaluation
    /\ NoExecution
    /\ NoAttack
    /\ NoRng
    /\ NoClaims
    /\ NoEvents

InitRepeat ==
    /\ trace \in {Trace(steps) : steps \in StepLists(RepeatLen)}
    /\ InitHistory
    /\ SignatureUntouched
    /\ NoAgentNamed
    /\ NoPut
    /\ NoEvaluation
    /\ NoExecution
    /\ NoAttack
    /\ NoRng
    /\ NoClaims
    /\ NoEvents

(***************************************************************************)
(* Actions: one call of mutate each.                                       *)
(***************************************************************************)
\* The call returns: the trace is what the call left, the history variables
\* record the call.
Return(name, out, ch) ==
    /\ trace' = out.trace
    /\ mutator' = name
    /\ result' = out.result
    /\ before' = trace
    /\ choice' = [ch EXCEPT !.to_mutate = out.to_mutate]

\* No value is drawn from the random source when the trace is empty.
Drawn(length, range) == IF length = 0 THEN {-1} ELSE range

\* The fuzzer's mutational stage calls one mutator of trace_mutations() at a
\* time; Idle: no call has returned that the stage has not yet taken note of.
Idle == mutator = ""

RepeatCall ==
    LET length == Len(trace.steps)
    IN  \E step_index \in Drawn(length, between(0, length - 1)) :
        \E insert_index \in Drawn(length, RepeatInsertRange(length)) :
            Return("RepeatMutator",
                   RepeatMutator_mutate(trace, step_index, insert_index),
                   [NoChoice EXCEPT !.step_index = step_index, !.index = insert_index])

Repeat ==
    /\ Idle
    /\ Len(trace.steps) < MaxSteps
    /\ RepeatCall
    /\ UNCHANGED <<n_initial, n_mutated, n_skipped, nonmutation>>

\* Repeat applied again to the trace it left.
RepeatStep ==
    /\ Len(trace.steps) < MaxRepeated
    /\ RepeatCall
    /\ UNCHANGED <<n_initial, n_mutated, n_skipped, nonmutation>>

SkipCall ==
    LET length == Len(trace.steps)
    IN  \E remove_index \in Drawn(length, between(0, length - 1)) :
            Return("SkipMutator",
                   SkipMutator_mutate(trace, remove_index),
                   [NoChoice EXCEPT !.index = remove_index])

Skip ==
    /\ Idle
    /\ SkipCall
    /\ UNCHANGED <<n_initial, n_mutated, n_skipped, nonmutation>>

\* Skip applied again, its results counted.
SkipStep ==
    /\ n_skipped < MaxSkipped
    /\ SkipCall
    /\ n_mutated' = n_mutated + (IF result' = "Mutated" THEN 1 ELSE 0)
    /\ n_skipped' = n_skipped + (IF result' = "Skipped" THEN 1 ELSE 0)
    /\ UNCHANGED <<n_initial, nonmutation>>

ReplaceReuse ==
    /\ Idle
    /\ \E replacement_at \in choose_term(trace) :
       \E to_replace_at \in
              (IF replacement_at = None THEN {None}
               ELSE choose_term_mut(trace,
                        ReplaceReuseMatching(trace, TermAt(trace, replacement_at)))) :
           LET out == ReplaceReuseMutator_mutate(trace, replacement_at, to_replace_at)
           IN  /\ \A i \in InputSteps(out.trace) :
                      \/ size(out.trace.steps[i].action.recipe) <= MaxTermSize
                      \/ size(out.trace.steps[i].action.recipe)
                             <= size(trace.steps[i].action.recipe)
               /\ Return("ReplaceReuseMutator", out,
                         [NoChoice EXCEPT !.replacement = replacement_at,
                                          !.target = to_replace_at])
    /\ UNCHANGED <<n_initial, n_mutated, n_skipped, nonmutation>>

ReplaceMatch ==
    /\ Idle
    /\ \E k \in DOMAIN SIGNATURE_functions :
       LET requested == SIGNATURE_functions[k]
       IN  \E to_mutate_at \in choose_term_mut(trace, ReplaceMatchMatching(trace, requested)) :
               Return("ReplaceMatchMutator",
                      ReplaceMatchMutator_mutate(trace, requested, to_mutate_at),
                      [NoChoice EXCEPT !.requested = requested, !.target = to_mutate_at])
    /\ UNCHANGED <<n_initial, n_mutated, n_skipped, nonmutation>>

RemoveAndLift ==
    /\ Idle
    /\ \E to_mutate_at \in choose_term_mut(trace, RemoveAndLiftMatching(trace)) :
           Return("RemoveAndLiftMutator",
                  RemoveAndLiftMutator_mutate(trace, to_mutate_at),
                  [NoChoice EXCEPT !.target = to_mutate_at])
    /\ UNCHANGED <<n_initial, n_mutated, n_skipped, nonmutation>>

\* The stage takes the returned MutationResult and goes on with the trace as
\* the call left it; the call's locals are gone.
NextIteration ==
    /\ ~Idle
    /\ mutator' = ""
    /\ result' = ""
    /\ before' = trace
    /\ choice' = NoChoice
    /\ UNCHANGED <<trace, n_initial, n_mutated, n_skipped, nonmutation>>

\* The fuzzer applies the mutators of trace_mutations() in any order.
Next == Repeat \/ Skip \/ ReplaceReuse \/ ReplaceMatch \/ RemoveAndLift \/ NextIteration

Spec == Init /\ [][Next]_vars

\* Skip alone, applied again and again; each call returns.
NextSkip == SkipStep

SpecSkip == InitSkip /\ [][NextSkip]_vars /\ WF_vars(SkipStep)

\* Repeat alone, applied again and again.
NextRepeat == RepeatStep

SpecRepeat == InitRepeat /\ [][NextRepeat]_vars

(***************************************************************************)
(* Properties.                                                             *)
(***************************************************************************)
IsMutated(name) == mutator = name /\ result = "Mutated"

\* C1. Type preservation: after any finite sequence of mutations of a
\* well-typed trace, every Application of the trace has as many sub-terms as
\* its shape has argument types, each of the corresponding argument type.
TypePreservation == WellTypedTrace(trace)

TypePreservation_witness ==
    /\ IsMutated("ReplaceReuseMutator")
    /\ trace # before
    /\ \E at \in TermPositions(trace) : TermAt(trace, at).tag = "Application"

\* C2. Skip fixpoint: applied repeatedly to a trace of n steps, Skip returns
\* Mutated exactly once per removed step, n times in all, and Skipped from
\* then on.
SkipFixpoint ==
    /\ [](/\ n_mutated + Len(trace.steps) = n_initial
          /\ n_skipped > 0 => n_mutated = n_initial)
    /\ [][n_skipped > 0 => result' = "Skipped"]_vars
    /\ <>[](result = "Skipped" /\ n_mutated = n_initial)

SkipFixpoint_witness ==
    /\ n_initial = SkipLen
    /\ n_mutated = SkipLen
    /\ n_skipped = MaxSkipped
    /\ result = "Skipped"

\* C3. Repeat on a non-empty trace of length len can insert the cloned step
\* at every index of 0 .. len, the end of the list included.
RepeatInsertsAnywhere ==
    (0 < Len(trace.steps) /\ Len(trace.steps) < MaxSteps) =>
        \A index \in 0 .. Len(trace.steps) :
            ENABLED (Repeat /\ result' = "Mutated" /\ choice'.index = index)

\* C4. Replace-Match mutates in place: when it returns Mutated, the selected
\* Application of the trace carries the sampled function and has the
\* sub-terms it had before.
ReplaceMatchInPlace ==
    IsMutated("ReplaceMatchMutator") =>
        /\ TermAt(trace, choice.target).func = choice.requested
        /\ TermAt(trace, choice.target).subterms = TermAt(before, choice.target).subterms

\* C5. Remove-and-Lift strictly contracts: when it returns Mutated, the trace
\* has fewer term nodes than before.
RemoveAndLiftContracts ==
    IsMutated("RemoveAndLiftMutator") => TraceSize(trace) < TraceSize(before)

\* C6. Replace-Reuse replaces a target at another position than the sampled
\* replacement, of the same output type; it never substitutes a sub-term for
\* itself.
ReplaceReuseDistinct ==
    IsMutated("ReplaceReuseMutator") =>
        /\ choice.target # choice.replacement
        /\ get_type_shape(TermAt(before, choice.target))
              = get_type_shape(TermAt(before, choice.replacement))

\* C7. Replace-Match never returns Mutated for the function the selected
\* Application already has: the sampled function differs from it and has its
\* return type and argument types.
ReplaceMatchDifferent ==
    IsMutated("ReplaceMatchMutator") =>
        LET A == TermAt(before, choice.target)
        IN  /\ choice.requested.name # A.func.name
            /\ choice.requested.return_type = A.func.return_type
            /\ choice.requested.argument_types = A.func.argument_types

\* The proper descendants of the sub-term at a position.
Descendants(tr, at) ==
    {d \in TermPositions(tr) :
        /\ d.step = at.step
        /\ Len(d.path) > Len(at.path)
        /\ SubSeq(d.path, 1, Len(at.path)) = at.path}

\* The children C of some Application P that have a descendant G of C's
\* output type (section 4.6 of the specification).
Liftable(tr) ==
    {c \in TermPositions(tr) :
        /\ c.path # <<>>
        /\ \E g \in Descendants(tr, c) :
              get_type_shape(TermAt(tr, g)) = get_type_shape(TermAt(tr, c))}

\* An Application with exactly one sub-term, of the Application's output type.
SingleChildLift(term) ==
    /\ term.tag = "Application"
    /\ Len(term.subterms) = 1
    /\ get_type_shape(term.subterms[1]) = get_type_shape(term)

\* C8. Remove-and-Lift is applicable to every Application that has a child
\* with a descendant of the child's output type, also when that child has
\* several children: called on a trace with such an Application it returns
\* Mutated.
RemoveAndLiftMultiChild ==
    (mutator = "RemoveAndLiftMutator" /\ Liftable(before) # {}) => result = "Mutated"

\* C9. Skip-safety on an empty trace: Repeat and Skip return Skipped and
\* leave the trace as it was.
EmptyTraceSkipped ==
    (mutator \in {"RepeatMutator", "SkipMutator"} /\ Len(before.steps) = 0) =>
        /\ result = "Skipped"
        /\ trace = before

EmptyTraceSkipped_witness ==
    /\ mutator = "RepeatMutator"
    /\ Len(before.steps) = 0
    /\ result = "Skipped"

\* C10. Skip-safety of the term mutators: when no sub-term of the trace
\* passes the mutator's filter (no sub-term of the replacement's type for
\* Replace-Reuse, no Application with the return type and argument types of
\* the sampled shape for Replace-Match, no Application with one sub-term of
\* its own type for Remove-and-Lift) the mutator returns Skipped and the
\* trace is as it was.
NoCandidate ==
    \/ /\ mutator = "ReplaceReuseMutator"
       /\ \A s, t \in TermPositions(before) :
              get_type_shape(TermAt(before, s)) # get_type_shape(TermAt(before, t))
    \/ /\ mutator = "ReplaceMatchMutator"
       /\ \A at \in TermPositions(before) :
              LET term == TermAt(before, at)
              IN  \/ term.tag = "Variable"
                  \/ term.func.return_type # choice.requested.return_type
                  \/ term.func.argument_types # choice.requested.argument_types
    \/ /\ mutator = "RemoveAndLiftMutator"
       /\ \A at \in TermPositions(before) : ~SingleChildLift(TermAt(before, at))

trace_mutations ==
    <<"RepeatMutator", "SkipMutator", "ReplaceReuseMutator",
      "ReplaceMatchMutator", "RemoveAndLiftMutator">>

\* Two distinct subterms of the trace with the same output type.
Swappable(tr) ==
    \E a \in TermPositions(tr) : \E b \in TermPositions(tr) :
        /\ a # b
        /\ get_type_shape(TermAt(tr, a)) = get_type_shape(TermAt(tr, b))

\* The list without its element at index (from 0).
Without(steps, index) ==
    SubSeq(steps, 1, index) \o SubSeq(steps, index + 2, Len(steps))

\* What a call leaves of the trace apart from its step list.
FrameOf(tr) == [tr EXCEPT !.steps = <<>>]

\* C25: Repeat called on a trace that is not empty returns Mutated and the
\* step list has grown by exactly one step: the step at the drawn insert
\* index equals a step the trace held before the call (the one that was
\* chosen), taking it out again gives the list of before the call, in its
\* order, and nothing of the trace other than the step list has changed.
RepeatEffect ==
    (mutator = "RepeatMutator" /\ Len(before.steps) > 0) =>
        /\ result = "Mutated"
        /\ Len(trace.steps) = Len(before.steps) + 1
        /\ choice.index \in 0 .. (Len(trace.steps) - 1)
        /\ trace.steps[choice.index + 1] = before.steps[choice.step_index + 1]
        /\ \E i \in DOMAIN before.steps : trace.steps[choice.index + 1] = before.steps[i]
        /\ Without(trace.steps, choice.index) = before.steps
        /\ FrameOf(trace) = FrameOf(before)

\* Repeat has put a copy of the last of three steps between two steps that
\* differ from it.
RepeatEffect_witness ==
    /\ IsMutated("RepeatMutator")
    /\ Len(before.steps) = 3
    /\ choice.step_index = 2
    /\ choice.index = 1
    /\ before.steps[1] # before.steps[3]
    /\ before.steps[2] # before.steps[3]

\* C26: Skip called on a trace that is not empty returns Mutated and removes
\* exactly one step, the one at the drawn index, an index of the list: the
\* steps that remain are the others, with their content (no recipe is
\* modified) and in their order, and nothing of the trace other than the step
\* list has changed.
SkipEffect ==
    (mutator = "SkipMutator" /\ Len(before.steps) > 0) =>
        /\ result = "Mutated"
        /\ choice.index \in 0 .. (Len(before.steps) - 1)
        /\ Len(trace.steps) = Len(before.steps) - 1
        /\ trace.steps = Without(before.steps, choice.index)
        /\ \A i \in DOMAIN trace.steps :
              trace.steps[i] = before.steps[IF i <= choice.index THEN i ELSE i + 1]
        /\ FrameOf(trace) = FrameOf(before)

\* Skip has removed an inner step of a list of SkipLen steps whose last step
\* differs from the removed one's successor.
SkipEffect_witness ==
    /\ IsMutated("SkipMutator")
    /\ Len(before.steps) = SkipLen
    /\ choice.index = 1
    /\ before.steps[3] # before.steps[SkipLen]
    /\ \E i \in DOMAIN trace.steps : trace.steps[i].action.tag = "Input"

\* C11: the suite handed to the fuzzer contains a Swap mutator: it is one of
\* the mutators of trace_mutations, and the fuzzer can apply it whenever the
\* trace holds two distinct subterms of the same output type.
SwapMutatorProvided ==
    (Idle /\ Swappable(trace)) =>
        /\ \E i \in DOMAIN trace_mutations : trace_mutations[i] = "SwapMutator"
        /\ ENABLED (Next /\ mutator' = "SwapMutator")

(***************************************************************************)
(* The Signature (src/src/term/signature.rs): Signature::new builds the    *)
(* catalog and its three indices; define_signature! makes it a static      *)
(* once_cell Lazy that the first thread to touch it initialises.           *)
(***************************************************************************)
\* Longest list of definitions handed to Signature::new.
MaxDefinitions == 2
\* Number of executor threads that access SIGNATURE.
NumThreads == 2

Threads == 1 .. NumThreads

\* A TypeShape: the runtime identifier of the type and its human-readable name.
TypeShape(inner_type_id, name) == [inner_type_id |-> inner_type_id, name |-> name]

Key == TypeShape(1, "Key")
VecU8 == TypeShape(2, "Vec<u8>")
Random == TypeShape(3, "Random")
\* A second type called Key, from another module: another runtime identifier.
OtherKey == TypeShape(4, "Key")

op_hmac256_new_key == FunctionDefinition("op_hmac256_new_key", <<>>, Key)
op_arbitrary_to_key == FunctionDefinition("op_arbitrary_to_key", <<VecU8>>, Key)
op_hmac256 == FunctionDefinition("op_hmac256", <<Key, VecU8>>, VecU8)
op_random == FunctionDefinition("op_random", <<>>, Random)
op_other_key == FunctionDefinition("op_other_key", <<>>, OtherKey)

\* The definitions a list handed to Signature::new is made of; the name of a
\* definition is the path of its function, so that it determines the shape.
DefinitionPool ==
    {op_hmac256_new_key, op_arbitrary_to_key, op_hmac256, op_random, op_other_key}

RECURSIVE DefinitionLists(_)
DefinitionLists(n) ==
    IF n = 0 THEN {<<>>}
    ELSE LET shorter == DefinitionLists(n - 1)
         IN  shorter \cup
             {Append(l, d) : l \in {x \in shorter : Len(x) = n - 1}, d \in DefinitionPool}

\* Iterator::collect into a HashMap, of a list of (key, value) pairs: a later
\* pair replaces an earlier one of the same key.
HashMap_collect(pairs) ==
    LET keys == {pairs[i][1] : i \in DOMAIN pairs}
        last(k) == CHOOSE i \in DOMAIN pairs :
                       /\ pairs[i][1] = k
                       /\ \A j \in DOMAIN pairs : pairs[j][1] = k => j <= i
    IN  [k \in keys |-> pairs[last(k)][2]]

\* The index built from the first definition alone.
functions_by_name_first(defs) ==
    HashMap_collect([i \in DOMAIN defs \cap {1} |-> <<defs[i].name, defs[i]>>])

functions_by_name(defs) ==
    HashMap_collect([i \in DOMAIN defs |-> <<defs[i].name, defs[i]>>])

\* Grouping that puts each definition in front of its group.
RECURSIVE into_group_map_by_front(_)
into_group_map_by_front(defs) ==
    IF defs = <<>> THEN <<>>
    ELSE LET map == into_group_map_by_front(SubSeq(defs, 1, Len(defs) - 1))
             d == defs[Len(defs)]
         IN  IF d.return_type \in DOMAIN map
             THEN [map EXCEPT ![d.return_type] = <<d>> \o @]
             ELSE map @@ (d.return_type :> <<d>>)

\* Itertools::into_group_map_by(return_type): the definitions are taken in
\* order, each pushed to the Vec of its key.
RECURSIVE into_group_map_by(_)
into_group_map_by(defs) ==
    IF defs = <<>> THEN <<>>
    ELSE LET map == into_group_map_by(SubSeq(defs, 1, Len(defs) - 1))
             d == defs[Len(defs)]
         IN  IF d.return_type \in DOMAIN map
             THEN [map EXCEPT ![d.return_type] = Append(@, d)]
             ELSE map @@ (d.return_type :> <<d>>)

\* The argument shapes and the return type of a definition.
used_types(shape) == shape.argument_types \o <<shape.return_type>>

\* Itertools::unique: the first occurrence of each element, in order.
RECURSIVE unique(_)
unique(seq) ==
    IF seq = <<>> THEN <<>>
    ELSE LET front == unique(SubSeq(seq, 1, Len(seq) - 1))
             e == seq[Len(seq)]
         IN  IF \E i \in DOMAIN front : front[i] = e THEN front ELSE Append(front, e)

RECURSIVE flatten(_)
flatten(seqs) == IF seqs = <<>> THEN <<>> ELSE Head(seqs) \o flatten(Tail(seqs))

types_by_name(defs) ==
    LET types == flatten(unique([i \in DOMAIN defs |-> used_types(defs[i])]))
    IN  HashMap_collect([i \in DOMAIN types |-> <<types[i].name, types[i]>>])

Signature_new(defs) ==
    [functions_by_name |-> functions_by_name(defs),
     functions_by_typ |-> into_group_map_by(defs),
     functions |-> defs,
     types_by_name |-> types_by_name(defs)]

\* No mutator is at work.
MutationUnused ==
    /\ trace = Trace(<<>>)
    /\ InitHistory

InitSignature ==
    /\ definitions \in DefinitionLists(MaxDefinitions)
    /\ SIGNATURE = [state |-> "Incomplete", value |-> NoSignature]
    /\ pc = [t \in Threads |-> "start"]
    /\ n_init = 0
    /\ seen = [t \in Threads |-> NoSignature]
    /\ MutationUnused
    /\ NoAgentNamed
    /\ NoPut
    /\ NoEvaluation
    /\ NoExecution
    /\ NoAttack
    /\ NoRng
    /\ NoClaims
    /\ NoEvents

\* Lazy::force with every state but Complete taken for Incomplete.
MustInitialise_racy(cell) == cell.state # "Complete"

\* Lazy::force: only the thread that finds the cell Incomplete runs the
\* initialiser.
MustInitialise(cell) == cell.state = "Incomplete"

\* The thread has the reference to the Signature the cell holds.
Obtain(t) ==
    /\ seen' = [seen EXCEPT ![t] = SIGNATURE.value]
    /\ pc' = [pc EXCEPT ![t] = "done"]
    /\ UNCHANGED <<definitions, SIGNATURE, n_init>>

\* Thread t dereferences SIGNATURE.
Deref(t) ==
    /\ pc[t] = "start"
    /\ \/ /\ SIGNATURE.state = "Complete"
          /\ Obtain(t)
       \/ /\ SIGNATURE.state # "Complete"
          /\ MustInitialise(SIGNATURE)
          /\ SIGNATURE' = [SIGNATURE EXCEPT !.state = "Running"]
          /\ pc' = [pc EXCEPT ![t] = "init"]
          /\ UNCHANGED <<definitions, n_init, seen>>
       \/ /\ SIGNATURE.state # "Complete"
          /\ ~MustInitialise(SIGNATURE)
          /\ pc' = [pc EXCEPT ![t] = "wait"]
          /\ UNCHANGED <<definitions, SIGNATURE, n_init, seen>>
    /\ UNCHANGED nonsig

\* Thread t runs the closure given to Lazy::new and stores what it returns.
RunInitialiser(t) ==
    /\ pc[t] = "init"
    /\ SIGNATURE' = [state |-> "Complete", value |-> Signature_new(definitions)]
    /\ n_init' = n_init + 1
    /\ seen' = [seen EXCEPT ![t] = Signature_new(definitions)]
    /\ pc' = [pc EXCEPT ![t] = "done"]
    /\ UNCHANGED <<definitions, nonsig>>

\* Thread t, which found the initialiser running, goes on when it is done.
Wake(t) ==
    /\ pc[t] = "wait"
    /\ SIGNATURE.state = "Complete"
    /\ Obtain(t)
    /\ UNCHANGED nonsig

\* Thread t, in ReplaceMatchMutator::mutate, reads SIGNATURE.functions.
ReadFunctions(t) ==
    /\ pc[t] = "done"
    /\ seen' = [seen EXCEPT ![t] = SIGNATURE.value]
    /\ pc' = [pc EXCEPT ![t] = "used"]
    /\ UNCHANGED <<definitions, SIGNATURE, n_init, nonsig>>

NextSignature ==
    \E t \in Threads : Deref(t) \/ RunInitialiser(t) \/ Wake(t) \/ ReadFunctions(t)

SpecSignature == InitSignature /\ [][NextSignature]_vars

\* The types of the pool, and the names a lookup asks for.
PoolTypes == {Key, VecU8, Random, OtherKey}
LookupNames == {d.name : d \in DefinitionPool} \cup {"op_unknown"}

Built == SIGNATURE.state = "Complete"

\* C12: every TypeShape that is an argument type or the return type of a
\* definition handed to Signature::new is a value of types_by_name, also when
\* two distinct TypeShapes have the same name.
TypeCoverage ==
    Built =>
        \A i \in DOMAIN SIGNATURE.value.functions :
            LET used == used_types(SIGNATURE.value.functions[i])
            IN  \A k \in DOMAIN used :
                    \E name \in DOMAIN SIGNATURE.value.types_by_name :
                        SIGNATURE.value.types_by_name[name] = used[k]

\* C13: looking up the name of any definition of Signature.functions in
\* functions_by_name yields a definition of the same shape; a name no
\* definition carries yields none.
NameIndex ==
    Built =>
        LET sig == SIGNATURE.value
        IN  /\ \A i \in DOMAIN sig.functions :
                   /\ sig.functions[i].name \in DOMAIN sig.functions_by_name
                   /\ sig.functions_by_name[sig.functions[i].name] = sig.functions[i]
            /\ \A name \in LookupNames :
                   (\A i \in DOMAIN sig.functions : sig.functions[i].name # name)
                       => name \notin DOMAIN sig.functions_by_name

NameIndex_witness ==
    /\ Built
    /\ Len(definitions) = 2
    /\ definitions[1] = definitions[2]
    /\ DOMAIN SIGNATURE.value.functions_by_name = {definitions[1].name}

\* The positions of the catalog whose definition returns t, and the k-th of them.
Returning(fs, t) == {i \in DOMAIN fs : fs[i].return_type = t}
Nth(indices, k) == CHOOSE i \in indices : Cardinality({j \in indices : j <= i}) = k

\* C14: the group functions_by_typ stores for a TypeShape t holds exactly the
\* definitions of the catalog that return t, each once and in catalog order;
\* no group is stored for a type nothing returns, so that the groups
\* partition the catalog.
ReturnTypeIndex ==
    Built =>
        LET sig == SIGNATURE.value
        IN  \A t \in PoolTypes :
                LET at == Returning(sig.functions, t)
                IN  IF at = {} THEN t \notin DOMAIN sig.functions_by_typ
                    ELSE /\ t \in DOMAIN sig.functions_by_typ
                         /\ Len(sig.functions_by_typ[t]) = Cardinality(at)
                         /\ \A k \in 1 .. Cardinality(at) :
                                sig.functions_by_typ[t][k] = sig.functions[Nth(at, k)]

ReturnTypeIndex_witness ==
    /\ Built
    /\ definitions = <<op_arbitrary_to_key, op_hmac256_new_key>>
    /\ SIGNATURE.value.functions_by_typ[Key] = definitions

\* C15: the initialiser of SIGNATURE runs at most once, every thread that has
\* the Signature has the one built from the definitions, and once built the
\* cell is never changed.
SignatureInitialisedOnce ==
    /\ [](n_init <= 1)
    /\ [](\A t \in DOMAIN pc :
              pc[t] \in {"done", "used"} =>
                  /\ n_init = 1
                  /\ Built
                  /\ seen[t] = Signature_new(definitions))
    /\ [][Built => SIGNATURE' = SIGNATURE]_vars

SignatureInitialisedOnce_witness ==
    /\ n_init = 1
    /\ \E t \in DOMAIN pc : \E u \in DOMAIN pc :
           /\ pc[t] = "wait"
           /\ pc[u] = "used"
           /\ seen[u] = SIGNATURE.value
           /\ Len(definitions) > 0

(***************************************************************************)
(* Agent names (src/src/agent.rs): AgentName(u8), the next name is the     *)
(* last one plus one.                                                      *)
(***************************************************************************)
\* Number of values of a u8.
U8Values == 256
\* Number of names derived one after the other.
MaxDerivations == 256

\* AgentName::new(last_name): AgentName(last_name.0 + 1).  An addition that
\* leaves the u8 range panics in a build with overflow checks and wraps in a
\* build without them.
AgentName_new(last) ==
    IF last + 1 < U8Values
    THEN {[panicked |-> FALSE, name |-> last + 1]}
    ELSE {[panicked |-> TRUE, name |-> last],
          [panicked |-> FALSE, name |-> (last + 1) % U8Values]}

InitAgentName ==
    /\ NoAgentNamed
    /\ MutationUnused
    /\ SignatureUntouched
    /\ NoPut
    /\ NoEvaluation
    /\ NoExecution
    /\ NoAttack
    /\ NoRng
    /\ NoClaims
    /\ NoEvents

\* Agent::from_stream(last_name, stream): the new agent is given the name
\* derived from last_name, which is the last name for the next agent.
from_stream ==
    /\ ~name_panicked
    /\ Len(names) < MaxDerivations
    /\ \E out \in AgentName_new(last_name) :
           \/ /\ out.panicked
              /\ name_panicked' = TRUE
              /\ UNCHANGED <<last_name, names>>
           \/ /\ ~out.panicked
              /\ last_name' = out.name
              /\ names' = Append(names, out.name)
              /\ UNCHANGED name_panicked
    /\ UNCHANGED nonname

NextAgentName == from_stream

SpecAgentName == InitAgentName /\ [][NextAgentName]_vars

\* C16: every name derived, starting from the sentinel, differs from the
\* sentinel and from every name derived before it, however many names are
\* derived.
AgentNameFresh ==
    /\ ~name_panicked
    /\ \A i \in DOMAIN names :
           /\ names[i] # NONE_AGENT
           /\ \A j \in 1 .. (i - 1) : names[j] # names[i]

(***************************************************************************)
(* The OpenSSL agent (src/tlspuffin/src/openssl/mod.rs), built with the    *)
(* claims feature.                                                         *)
(***************************************************************************)
\* Number of agents made.
MaxPuts == 2

Slots == 1 .. MaxPuts
AgentNames == 1 .. (MaxPuts + 1)

\* What ssl_read and do_handshake can return: Ok, or an openssl::ssl::Error
\* that carries an I/O error, an error stack of the library, or neither.
ErrorKinds == {"WouldBlock", "UnexpectedEof", "Other"}
SslResults ==
    {SslResult(FALSE, "", FALSE), SslResult(TRUE, "", TRUE), SslResult(TRUE, "", FALSE)}
        \cup {SslResult(TRUE, kind, FALSE) : kind \in ErrorKinds}

\* The conversion with WouldBlock taken for an error like the other kinds.
MaybeError_from_strict(raw) ==
    IF raw.is_err
    THEN IF raw.io_error # "" THEN "Err(Error::IO)"
         ELSE IF raw.ssl_error THEN "Err(Error::OpenSSL)" ELSE "Ok"
    ELSE "Ok"

\* impl From<Result<T, openssl::ssl::Error>> for MaybeError, followed by
\* Into<Result<(), Error>>.
MaybeError_from(raw) ==
    IF raw.is_err
    THEN IF raw.io_error # ""
         THEN IF raw.io_error = "WouldBlock" THEN "Ok" ELSE "Err(Error::IO)"
         ELSE IF raw.ssl_error THEN "Err(Error::OpenSSL)" ELSE "Ok"
    ELSE "Ok"

register_claimer(cl, ssl, agent_name) == [cl EXCEPT ![ssl] = Append(@, agent_name)]
deregister_claimer(cl, ssl) == [cl EXCEPT ![ssl] = <<>>]

\* rename_agent built without the claims feature.
OpenSSL_rename_agent_unclaimed(cl, ssl, agent_name) == cl

\* rename_agent that registers the new listener and keeps the old one.
OpenSSL_rename_agent_keep(cl, ssl, agent_name) == register_claimer(cl, ssl, agent_name)

\* rename_agent, claims enabled: deregister, then register under the new name.
OpenSSL_rename_agent(cl, ssl, agent_name) ==
    register_claimer(deregister_claimer(cl, ssl), ssl, agent_name)

\* reset that registers the listener under the name it is passed.
OpenSSL_reset_rename(cl, ssl, agent_name) == OpenSSL_rename_agent(cl, ssl, agent_name)

\* reset, as far as the claim listeners go: agent_name is not used.
OpenSSL_reset(cl, ssl, agent_name) == cl

NoAgent == [status |-> "none", name |-> NONE_AGENT, successful |-> FALSE]

InitPut ==
    /\ puts = [slot \in Slots |-> NoAgent]
    /\ claimers = [slot \in Slots |-> <<>>]
    /\ put_result = NoOperation
    /\ MutationUnused
    /\ SignatureUntouched
    /\ NoAgentNamed
    /\ NoEvaluation
    /\ NoExecution
    /\ NoAttack
    /\ NoRng
    /\ NoClaims
    /\ NoEvents

Operation(op, slot, call, raw, res) ==
    [op |-> op, slot |-> slot, call |-> call, raw |-> raw, result |-> res]

\* A panic ends the execution.
Running == put_result.result # "panic"
Live(slot) == puts[slot].status = "live"

\* OpenSSL::new(agent, config): create_server or create_client, then
\* SslStream::new, each of which can fail; then the claimer is registered.
OpenSSL_new(slot) ==
    /\ Running
    /\ puts[slot].status = "none"
    /\ \E agent_name \in AgentNames :
       \E failed \in {"", "create_server/create_client", "SslStream::new"} :
           IF failed # ""
           THEN /\ puts' = [puts EXCEPT ![slot].status = "failed"]
                /\ put_result' = Operation("new", slot, failed, NoOperation.raw, "Err")
                /\ UNCHANGED claimers
           ELSE /\ puts' = [puts EXCEPT ![slot] =
                               [status |-> "live", name |-> agent_name, successful |-> FALSE]]
                /\ claimers' = register_claimer(claimers, slot, agent_name)
                /\ put_result' = Operation("new", slot, "", NoOperation.raw, "Ok")
    /\ UNCHANGED nonput

\* progress: ssl_read when the state is successful, do_handshake otherwise;
\* a handshake call that returns Ok may have finished the negotiation.
progress(slot) ==
    /\ Running
    /\ Live(slot)
    /\ LET call == IF puts[slot].successful THEN "ssl_read" ELSE "do_handshake"
       IN  \E raw \in SslResults :
           \E finished \in BOOLEAN :
               /\ finished => (call = "do_handshake" /\ ~raw.is_err)
               /\ puts' = [puts EXCEPT ![slot].successful = @ \/ finished]
               /\ put_result' = Operation("progress", slot, call, raw, MaybeError_from(raw))
    /\ UNCHANGED <<claimers, nonput>>

\* reset(agent_name): self.stream.clear(); Ok(())
reset(slot) ==
    /\ Running
    /\ Live(slot)
    /\ \E agent_name \in AgentNames :
           claimers' = OpenSSL_reset(claimers, slot, agent_name)
    /\ puts' = [puts EXCEPT ![slot].successful = FALSE]
    /\ put_result' = Operation("reset", slot, "", NoOperation.raw, "Ok")
    /\ UNCHANGED nonput

rename_agent(slot) ==
    /\ Running
    /\ Live(slot)
    /\ \E agent_name \in AgentNames :
           /\ puts' = [puts EXCEPT ![slot].name = agent_name]
           /\ claimers' = OpenSSL_rename_agent(claimers, slot, agent_name)
    /\ put_result' = Operation("rename_agent", slot, "", NoOperation.raw, "Ok")
    /\ UNCHANGED nonput

\* shutdown: panic!("Unsupported with OpenSSL PUT")
shutdown(slot) ==
    /\ Running
    /\ Live(slot)
    /\ put_result' = Operation("shutdown", slot, "", NoOperation.raw, "panic")
    /\ UNCHANGED <<puts, claimers, nonput>>

\* Drop for OpenSSL: the claimer is deregistered.
drop(slot) ==
    /\ Running
    /\ Live(slot)
    /\ puts' = [puts EXCEPT ![slot].status = "dropped"]
    /\ claimers' = deregister_claimer(claimers, slot)
    /\ put_result' = Operation("drop", slot, "", NoOperation.raw, "")
    /\ UNCHANGED nonput

NextPut ==
    \E slot \in Slots :
        \/ OpenSSL_new(slot)
        \/ progress(slot)
        \/ reset(slot)
        \/ rename_agent(slot)
        \/ shutdown(slot)
        \/ drop(slot)

SpecPut == InitPut /\ [][NextPut]_vars

\* C17: progress reads when the state is successful and takes a handshake
\* step otherwise; it returns Ok when that call succeeds or fails with a
\* WouldBlock I/O error, an IO error for any other I/O error kind, and an
\* OpenSSL error when the library reports a TLS error.
ProgressResult ==
    put_result.op = "progress" =>
        LET raw == put_result.raw
        IN  /\ put_result.call \in {"ssl_read", "do_handshake"}
            /\ put_result.call = "ssl_read" => puts[put_result.slot].successful
            /\ (put_result.call = "do_handshake" /\ raw.is_err)
                   => ~puts[put_result.slot].successful
            /\ (~raw.is_err \/ raw.io_error = "WouldBlock") => put_result.result = "Ok"
            /\ (raw.is_err /\ raw.io_error \in ErrorKinds \ {"WouldBlock"})
                   => put_result.result = "Err(Error::IO)"
            /\ (raw.is_err /\ raw.io_error = "" /\ raw.ssl_error)
                   => put_result.result = "Err(Error::OpenSSL)"

ProgressResult_witness ==
    /\ put_result.op = "progress"
    /\ put_result.call = "ssl_read"
    /\ put_result.raw = SslResult(TRUE, "WouldBlock", FALSE)
    /\ put_result.result = "Ok"

\* C18: shutdown called on an agent, in any state, returns a string to the
\* caller; it does not abort the execution.
ShutdownReturns ==
    put_result.op = "shutdown" => put_result.result = "String"

\* C19: every live agent has exactly one claim listener registered, every
\* dropped agent has none, and a creation that failed has registered none.
ClaimListenerRelease ==
    \A slot \in DOMAIN puts :
        IF puts[slot].status = "live"
        THEN claimers[slot] = <<puts[slot].name>>
        ELSE claimers[slot] = <<>>

ClaimListenerRelease_witness ==
    /\ put_result.op = "rename_agent"
    /\ \E slot \in DOMAIN puts : \E other \in DOMAIN puts :
           /\ puts[slot].status = "live"
           /\ puts[slot].successful
           /\ Len(claimers[slot]) = 1
           /\ puts[other].status \in {"dropped", "failed"}

(***************************************************************************)
(* The claim listener of the OpenSSL agent                                 *)
(* (src/tlspuffin/src/openssl/mod.rs, to_claim_data and register_claimer). *)
(***************************************************************************)
\* Number of claims recorded.
MaxClaims == 2

AgentTypes == {"Server", "Client"}
TLSVersions == {"V1_2", "V1_3"}
PutConfigs == [typ : AgentTypes, tls_version : TLSVersions]

\* security_claims::ClaimType, "_" for a type to_claim_data does not name.
TranscriptClaimTypes ==
    {"CLAIM_TRANSCRIPT_CH", "CLAIM_TRANSCRIPT_PARTIAL_CH", "CLAIM_TRANSCRIPT_CH_SH",
     "CLAIM_TRANSCRIPT_CH_SERVER_FIN", "CLAIM_TRANSCRIPT_CH_CLIENT_FIN",
     "CLAIM_TRANSCRIPT_CH_CERT"}
ClaimTypes ==
    TranscriptClaimTypes \cup
    {"CLAIM_FINISHED", "CLAIM_CLIENT_HELLO", "CLAIM_CCS", "CLAIM_END_OF_EARLY_DATA",
     "CLAIM_CERTIFICATE", "CLAIM_KEY_EXCHANGE", "CLAIM_CERTIFICATE_VERIFY",
     "CLAIM_KEY_UPDATE", "CLAIM_HELLO_REQUEST", "CLAIM_SERVER_HELLO",
     "CLAIM_CERTIFICATE_REQUEST", "CLAIM_SERVER_DONE", "CLAIM_SESSION_TICKET",
     "CLAIM_CERTIFICATE_STATUS", "CLAIM_EARLY_DATA", "CLAIM_ENCRYPTED_EXTENSIONS", "_"}

LibraryClaims == {LibraryClaim(typ, write) : typ \in ClaimTypes, write \in {0, 1}}

\* The claims an agent is followed with through its renames and resets: one
\* that is recorded and one that is not.
HandshakeClaims == {LibraryClaim("CLAIM_FINISHED", 1), LibraryClaim("CLAIM_CCS", 1)}

\* Every agent of a trace made with the same role and version.
UniformConfigs == {[slot \in Slots |-> config] : config \in PutConfigs}

\* Option<ClaimData>: None, ClaimData::Transcript(variant) or
\* ClaimData::Message(ClaimDataMessage::Finished(..)).
NoClaimData ==
    [tag |-> "None", variant |-> "", outbound |-> FALSE, master_secret |-> ""]
Transcript(variant) ==
    [tag |-> "Transcript", variant |-> variant, outbound |-> FALSE, master_secret |-> ""]
Finished(outbound, master_secret) ==
    [tag |-> "Message", variant |-> "Finished", outbound |-> outbound,
     master_secret |-> master_secret]

\* to_claim_data that takes the TLS 1.3 field whatever the version.
to_claim_data_13(protocol_version, claim) ==
    CASE claim.typ = "CLAIM_TRANSCRIPT_CH" -> Transcript("ClientHello")
      [] claim.typ = "CLAIM_TRANSCRIPT_PARTIAL_CH" -> Transcript("PartialClientHello")
      [] claim.typ = "CLAIM_TRANSCRIPT_CH_SH" -> Transcript("ServerHello")
      [] claim.typ = "CLAIM_TRANSCRIPT_CH_SERVER_FIN" -> Transcript("ServerFinished")
      [] claim.typ = "CLAIM_TRANSCRIPT_CH_CLIENT_FIN" -> Transcript("ClientFinished")
      [] claim.typ = "CLAIM_TRANSCRIPT_CH_CERT" -> Transcript("Certificate")
      [] claim.typ = "CLAIM_FINISHED" -> Finished(claim.write > 0, claim.master_secret)
      [] claim.typ = "CLAIM_CERTIFICATE_VERIFY" ->
             IF claim.write = 0 THEN Transcript("ServerFinished") ELSE NoClaimData
      [] OTHER -> NoClaimData

to_claim_data(protocol_version, claim) ==
    CASE claim.typ = "CLAIM_TRANSCRIPT_CH" -> Transcript("ClientHello")
      [] claim.typ = "CLAIM_TRANSCRIPT_PARTIAL_CH" -> Transcript("PartialClientHello")
      [] claim.typ = "CLAIM_TRANSCRIPT_CH_SH" -> Transcript("ServerHello")
      [] claim.typ = "CLAIM_TRANSCRIPT_CH_SERVER_FIN" -> Transcript("ServerFinished")
      [] claim.typ = "CLAIM_TRANSCRIPT_CH_CLIENT_FIN" -> Transcript("ClientFinished")
      [] claim.typ = "CLAIM_TRANSCRIPT_CH_CERT" -> Transcript("Certificate")
      [] claim.typ = "CLAIM_FINISHED" ->
             Finished(claim.write > 0,
                      CASE protocol_version = "V1_3" -> claim.master_secret
                        [] protocol_version = "V1_2" -> claim.master_secret_12)
      [] claim.typ = "CLAIM_CERTIFICATE_VERIFY" ->
             IF claim.write = 0 THEN Transcript("ServerFinished") ELSE NoClaimData
      [] OTHER -> NoClaimData

Claim(agent_name, origin, protocol_version, data) ==
    [agent_name |-> agent_name, origin |-> origin,
     protocol_version |-> protocol_version, data |-> data]

\* ClaimList::claim_sized: the claim is appended.
claim_sized(list, claim) == Append(list, claim)

\* The closure register_claimer hands to the library: it has captured the
\* claim list, config.tls_version, config.typ and agent_name.
claimer_closure(list, agent_name, config, claim) ==
    LET data == to_claim_data(config.tls_version, claim)
    IN  IF data # NoClaimData
        THEN claim_sized(list, Claim(agent_name, config.typ, config.tls_version, data))
        ELSE list

\* The library hands a claim to every listener registered for the ssl.
RECURSIVE call_claimers(_, _, _, _)
call_claimers(list, listeners, config, claim) ==
    IF listeners = <<>> THEN list
    ELSE call_claimers(claimer_closure(list, Head(listeners), config, claim),
                       Tail(listeners), config, claim)

InitClaims ==
    /\ puts = [slot \in Slots |-> NoAgent]
    /\ claimers = [slot \in Slots |-> <<>>]
    /\ put_result = NoOperation
    /\ configs \in UniformConfigs
    /\ claims = <<>>
    /\ last_claim = NoLibraryClaim
    /\ MutationUnused
    /\ SignatureUntouched
    /\ NoAgentNamed
    /\ NoEvaluation
    /\ NoExecution
    /\ NoAttack
    /\ NoRng
    /\ NoEvents

\* OpenSSL::new has returned the first agent.
InitClaimData ==
    /\ \E agent_name \in AgentNames :
           /\ puts = [slot \in Slots |->
                         IF slot = 1
                         THEN [status |-> "live", name |-> agent_name, successful |-> FALSE]
                         ELSE NoAgent]
           /\ claimers = register_claimer([slot \in Slots |-> <<>>], 1, agent_name)
    /\ put_result = Operation("new", 1, "", NoOperation.raw, "Ok")
    /\ configs \in UniformConfigs
    /\ claims = <<>>
    /\ last_claim = NoLibraryClaim
    /\ MutationUnused
    /\ SignatureUntouched
    /\ NoAgentNamed
    /\ NoEvaluation
    /\ NoExecution
    /\ NoAttack
    /\ NoRng
    /\ NoEvents

\* The library, at work for the ssl of an agent, reports a claim.
on_claim(slot, claim) ==
    /\ Running
    /\ claimers[slot] # <<>>
    /\ Len(claims) < MaxClaims
    /\ claims' = call_claimers(claims, claimers[slot], configs[slot], claim)
    /\ last_claim' = [slot |-> slot, claim |-> claim, after |-> put_result.op]
    /\ UNCHANGED <<configs, nonclaim>>

handshake_claim(slot) == \E claim \in HandshakeClaims : on_claim(slot, claim)

library_claim(slot) == \E claim \in LibraryClaims : on_claim(slot, claim)

\* The first agent is made, renamed, reset and dropped while the library
\* reports.
NextClaims ==
    \/ OpenSSL_new(1)
    \/ reset(1)
    \/ rename_agent(1)
    \/ drop(1)
    \/ handshake_claim(1)

SpecClaims == InitClaims /\ [][NextClaims]_vars

\* The listener of one agent, called with any claim of the library.
NextClaimData == library_claim(1)

SpecClaimData == InitClaimData /\ [][NextClaimData]_vars

\* C27: the claim list only grows, the claims recorded earlier stay as they
\* are, and every claim an agent records carries the name the agent has at
\* that moment, the one of its creation or of the latest rename_agent, never
\* an earlier one.
ClaimsCarryName ==
    [][/\ Len(claims') >= Len(claims)
       /\ SubSeq(claims', 1, Len(claims)) = claims
       /\ \A i \in (Len(claims) + 1) .. Len(claims') :
              claims'[i].agent_name = puts[last_claim'.slot].name]_vars

\* One agent recorded a claim, was renamed, and recorded a second claim.
ClaimsCarryName_witness ==
    /\ put_result.op = "rename_agent"
    /\ last_claim.after = "rename_agent"
    /\ Len(claims) = 2
    /\ claims[1].agent_name # claims[2].agent_name
    /\ claims[2].agent_name = puts[put_result.slot].name
    /\ \A other \in DOMAIN puts \ {put_result.slot} : puts[other].status = "none"

\* C28: reset, whatever name it is passed, returns Ok and clears the stream
\* only: the configurations, the registered claim listeners, the names of the
\* agents and the claim list are as before, so that the claims recorded after
\* it carry the name they would have carried.
ResetFrame ==
    /\ [][\A slot \in Slots :
            reset(slot) =>
                /\ put_result'.result = "Ok"
                /\ configs' = configs
                /\ claimers' = claimers
                /\ claims' = claims
                /\ puts' = [puts EXCEPT ![slot].successful = FALSE]]_vars
    /\ [](put_result.op = "reset" =>
            claimers[put_result.slot] = <<puts[put_result.slot].name>>)

\* The only agent made was reset and has recorded a claim since.
ResetFrame_witness ==
    /\ put_result.op = "reset"
    /\ last_claim.after = "reset"
    /\ last_claim.slot = put_result.slot
    /\ claims # <<>>
    /\ claims[Len(claims)].agent_name = puts[put_result.slot].name
    /\ \A other \in DOMAIN puts \ {put_result.slot} : puts[other].status = "none"

\* The claims of the library that are recorded.
Recorded(claim) ==
    \/ claim.typ \in TranscriptClaimTypes
    \/ claim.typ = "CLAIM_FINISHED"
    \/ claim.typ = "CLAIM_CERTIFICATE_VERIFY" /\ claim.write = 0

\* C29: a claim of the library is appended to the claim list when its type
\* is one of the six transcript types, Finished, or CertificateVerify with
\* write = 0, and nothing is appended for any other claim; the record
\* appended for Finished holds the master secret of the TLS 1.3 field when
\* the agent's version is 1.3 and of the TLS 1.2 field when it is 1.2; every
\* record appended carries the agent's name, role and TLS version.
ClaimConversion ==
    [][LET slot == last_claim'.slot
           claim == last_claim'.claim
       IN  (slot \in Slots /\ on_claim(slot, claim)) =>
             IF Recorded(claim)
             THEN /\ Len(claims') = Len(claims) + 1
                  /\ SubSeq(claims', 1, Len(claims)) = claims
                  /\ LET record == claims'[Len(claims')]
                     IN  /\ record.agent_name = puts[slot].name
                         /\ record.origin = configs[slot].typ
                         /\ record.protocol_version = configs[slot].tls_version
                         /\ record.data.tag =
                                (IF claim.typ = "CLAIM_FINISHED" THEN "Message" ELSE "Transcript")
                         /\ claim.typ = "CLAIM_FINISHED" =>
                                /\ record.data.variant = "Finished"
                                /\ configs[slot].tls_version = "V1_3" =>
                                       record.data.master_secret = claim.master_secret
                                /\ configs[slot].tls_version = "V1_2" =>
                                       record.data.master_secret = claim.master_secret_12
             ELSE claims' = claims]_vars

\* A TLS 1.2 agent has recorded a Finished claim, and a claim of a type that
\* is not recorded has left the list as it was.
ClaimConversion_witness ==
    /\ Len(claims) = 1
    /\ claims[1].protocol_version = "V1_2"
    /\ claims[1].data = Finished(TRUE, "master_secret_12")
    /\ last_claim.claim = LibraryClaim("CLAIM_CERTIFICATE_VERIFY", 1)


(***************************************************************************)
(* Evaluation of terms over the registered function symbols                *)
(* (src/src/term/op_impl.rs, src/src/tls/fn_fields.rs).                    *)
(***************************************************************************)
\* Deepest nesting of applications in an evaluated term.
MaxEvalDepth == 3
\* Number of times the term is evaluated.
MaxEvaluations == 2

fn_random == FunctionDefinition("fn_random", <<>>, Random)

\* The byte vectors the knowledge store can hold for the variable, and the
\* keys the system random source can generate.
KnownBytes == {"b0", "b1"}
GeneratedKeys == {<<"Key", "r1">>, <<"Key", "r2">>}

\* The terms evaluated: applications of registered symbols to each other and
\* to one variable of type Vec<u8>, nested at most d deep.
RECURSIVE BytesTerms(_)
RECURSIVE KeyTerms(_)
BytesTerms(d) ==
    {Variable(VecU8, <<0, 0>>)} \cup
    (IF d = 0 THEN {}
     ELSE {Application(op_hmac256, <<k, m>>) : k \in KeyTerms(d - 1), m \in BytesTerms(d - 1)})

KeyTerms(d) ==
    IF d = 0 THEN {}
    ELSE {Application(op_hmac256_new_key, <<>>)} \cup
         {Application(op_arbitrary_to_key, <<m>>) : m \in BytesTerms(d - 1)}

EvalTerms ==
    BytesTerms(MaxEvalDepth) \cup KeyTerms(MaxEvalDepth)
        \cup {Application(op_random, <<>>), Application(fn_random, <<>>)}

\* The values a call of the function can return for the given arguments.
DynamicFunction(func, args) ==
    CASE func.name = "op_hmac256_new_key" ->
             \* hmac::Key::generate(hmac::HMAC_SHA256, &SystemRandom::new())
             GeneratedKeys
      [] func.name = "op_arbitrary_to_key" ->
             \* Key::new(hmac::HMAC_SHA256, key.as_slice())
             {<<"Key", args[1]>>}
      [] func.name = "op_hmac256" ->
             \* hmac::sign(&key, msg)
             {<<"hmac", args[1], args[2]>>}
      [] func.name \in {"op_random", "fn_random"} ->
             \* Random::from([1; 32])
             {<<"Random", 1>>}

\* Term::evaluate: a variable is looked up in the knowledge, the subterms of
\* an application are evaluated from left to right and handed to the function.
RECURSIVE Evaluate(_, _)
RECURSIVE EvaluateAll(_, _)
Evaluate(term, kn) ==
    IF term.tag = "Variable" THEN {kn}
    ELSE UNION {DynamicFunction(term.func, args) : args \in EvaluateAll(term.subterms, kn)}

EvaluateAll(subterms, kn) ==
    IF subterms = <<>> THEN {<<>>}
    ELSE {<<first>> \o rest :
              first \in Evaluate(Head(subterms), kn),
              rest \in EvaluateAll(Tail(subterms), kn)}

InitEval ==
    /\ eval_term \in EvalTerms
    /\ knowledge \in KnownBytes
    /\ eval_values = <<>>
    /\ MutationUnused
    /\ SignatureUntouched
    /\ NoAgentNamed
    /\ NoPut
    /\ NoExecution
    /\ NoAttack
    /\ NoRng
    /\ NoClaims
    /\ NoEvents

\* The term is evaluated, once more, against the same knowledge.
evaluate ==
    /\ Len(eval_values) < MaxEvaluations
    /\ \E value \in Evaluate(eval_term, knowledge) :
           eval_values' = Append(eval_values, value)
    /\ UNCHANGED <<eval_term, knowledge, noneval>>

NextEval == evaluate

SpecEval == InitEval /\ [][NextEval]_vars

\* C20: evaluating the same term again against the same knowledge yields the
\* same value, for every registered function symbol.
EvaluationDeterministic ==
    \A i \in DOMAIN eval_values : \A j \in DOMAIN eval_values :
        eval_values[i] = eval_values[j]

(***************************************************************************)
(* Execution of the seed trace (src/src/fuzzer/seeds.rs) and the handling  *)
(* of outbound messages (src/tlspuffin/src/put_registry.rs).  The engine   *)
(* that walks the steps is defined elsewhere in the crate; it is modelled  *)
(* from section 4.5 of the specification.                                  *)
(***************************************************************************)
\* Most outbound messages an agent hands over in one Output step.
MaxMessages == 2

op_client_hello ==
    FunctionDefinition("op_client_hello",
        <<"ProtocolVersion", "Random", "SessionID", "Vec<CipherSuite>",
          "Vec<Compression>", "Vec<ClientExtension>">>, "Message")
op_server_hello ==
    FunctionDefinition("op_server_hello",
        <<"ProtocolVersion", "Random", "SessionID", "CipherSuite",
          "Compression", "Vec<ServerExtension>">>, "Message")
op_change_cipher_spec == FunctionDefinition("op_change_cipher_spec", <<>>, "Message")
op_application_data == FunctionDefinition("op_application_data", <<"Payload">>, "Message")

\* sig.new_var::<T>((id, k)) for each argument type of the function, in order.
new_vars(func, id) ==
    [i \in DOMAIN func.argument_types |-> Variable(func.argument_types[i], <<id, 0>>)]

ApplicationData(agent, id, k) ==
    InputStep(agent, Application(op_application_data, <<Variable("Payload", <<id, k>>)>>))

\* The seed with the ServerHello input put before the Output step it reads.
seed_successful_early ==
    Trace(<<OutputStep(client, 0),
            InputStep(server, Application(op_client_hello, new_vars(op_client_hello, 0))),
            InputStep(client, Application(op_server_hello, new_vars(op_server_hello, 1))),
            OutputStep(server, 1)>>)

\* The Trace seed_successful returns.
seed_successful ==
    Trace(<<OutputStep(client, 0),
            InputStep(server, Application(op_client_hello, new_vars(op_client_hello, 0))),
            OutputStep(server, 1),
            InputStep(client, Application(op_server_hello, new_vars(op_server_hello, 1))),
            InputStep(client, Application(op_change_cipher_spec, <<>>)),
            ApplicationData(client, 1, 2),
            ApplicationData(client, 1, 3),
            ApplicationData(client, 1, 4),
            ApplicationData(client, 1, 5),
            OutputStep(client, 2),
            ApplicationData(server, 2, 0),
            OutputStep(server, 3),
            ApplicationData(client, 3, 0),
            ApplicationData(client, 3, 1)>>)

\* The Variables of a recipe.
VariablesOf(term) ==
    {v \in {SubtermAt(term, path) : path \in Paths(term)} : v.tag = "Variable"}

\* The lists of opaque messages an agent can hand over in an Output step:
\* each can be parsed into a structured message, or cannot.
RECURSIVE OpaqueLists(_)
OpaqueLists(n) ==
    IF n = 0 THEN {<<>>}
    ELSE LET shorter == OpaqueLists(n - 1)
         IN  shorter \cup
             {Append(l, m) : l \in {x \in shorter : Len(x) = n - 1},
                             m \in {"well-formed", "malformed"}}

\* into_message that unwraps the result of the conversion.
into_message_unwrap(opaque) ==
    IF opaque = "well-formed" THEN "Ok(Message)" ELSE "panic"

\* OpaqueMessage::into_message: Message::try_from(..).map_err(Error::Stream)
into_message(opaque) ==
    IF opaque = "well-formed" THEN "Ok(Message)" ELSE "Err(Error::Stream)"

\* MessageResult(Option<Message>, OpaqueMessage)
MessageResult(parsed, opaque) == [message |-> parsed, opaque |-> opaque]

\* TlsQueryMatcher::try_from(&MessageResult): a matcher is found for a
\* result with and without a structured message.
TlsQueryMatcher_try_from(message_result) == "Ok(TlsQueryMatcher)"

\* extract_query_matcher: TlsQueryMatcher::try_from(message_result).unwrap()
extract_query_matcher(message_result) ==
    IF TlsQueryMatcher_try_from(message_result) = "Ok(TlsQueryMatcher)"
    THEN "TlsQueryMatcher" ELSE "panic"

\* An Output step: every opaque message taken from the agent is parsed if
\* it can be, given its matcher and recorded with its opaque bytes; a parse
\* failure is reported.
RECURSIVE OutputAction_execute(_, _, _)
OutputAction_execute(id, outbound, known) ==
    IF outbound = <<>> THEN [panicked |-> FALSE, observations |-> known, reported |-> 0]
    ELSE LET rest == OutputAction_execute(id, SubSeq(outbound, 1, Len(outbound) - 1), known)
             opaque == outbound[Len(outbound)]
             message == into_message(opaque)
             message_result == MessageResult(message = "Ok(Message)", opaque)
             matcher == extract_query_matcher(message_result)
         IN  IF rest.panicked \/ message = "panic" \/ matcher = "panic"
             THEN [rest EXCEPT !.panicked = TRUE]
             ELSE [panicked |-> FALSE,
                   observations |->
                       Append(rest.observations,
                              [id |-> id, k |-> Len(outbound) - 1, matcher |-> matcher,
                               parsed |-> message_result.message,
                               opaque |-> message_result.opaque]),
                   reported |-> rest.reported + (IF message_result.message THEN 0 ELSE 1)]

InitExec ==
    /\ exec_pos = 0
    /\ completed = {}
    /\ observations = <<>>
    /\ exec_status = "running"
    /\ n_reported = 0
    /\ premature = FALSE
    /\ MutationUnused
    /\ SignatureUntouched
    /\ NoAgentNamed
    /\ NoPut
    /\ NoEvaluation
    /\ NoAttack
    /\ NoRng
    /\ NoClaims
    /\ NoEvents

\* The step executed next, and the status once it has been executed.
NextStep == seed_successful.steps[exec_pos + 1]
Advanced == IF exec_pos + 1 = Len(seed_successful.steps) THEN "done" ELSE "running"
MoreSteps == exec_status = "running" /\ exec_pos < Len(seed_successful.steps)

ExecuteOutput ==
    /\ MoreSteps
    /\ NextStep.action.tag = "Output"
    /\ \E outbound \in OpaqueLists(MaxMessages) :
           LET out == OutputAction_execute(NextStep.action.id, outbound, observations)
           IN  IF out.panicked
               THEN /\ exec_status' = "aborted"
                    /\ UNCHANGED <<exec_pos, completed, observations, n_reported>>
               ELSE /\ exec_status' = Advanced
                    /\ exec_pos' = exec_pos + 1
                    /\ completed' = completed \cup {NextStep.action.id}
                    /\ observations' = out.observations
                    /\ n_reported' = n_reported + out.reported
    /\ UNCHANGED <<premature, nonexec>>

\* An Input step: the recipe is evaluated against the knowledge gathered
\* so far and fed to the agent.
ExecuteInput ==
    /\ MoreSteps
    /\ NextStep.action.tag = "Input"
    /\ premature' =
           (premature \/ \E v \in VariablesOf(NextStep.action.recipe) :
                             v.observed_id[1] \notin completed)
    /\ exec_status' = Advanced
    /\ exec_pos' = exec_pos + 1
    /\ UNCHANGED <<completed, observations, n_reported, nonexec>>

NextExec == ExecuteOutput \/ ExecuteInput

SpecExec == InitExec /\ [][NextExec]_vars

SeedKnowledgeOrdered ==
    /\ ~premature
    /\ \A i \in InputSteps(seed_successful) :
           \A v \in VariablesOf(seed_successful.steps[i].action.recipe) :
               \E j \in 1 .. (i - 1) :
                   /\ seed_successful.steps[j].action.tag = "Output"
                   /\ seed_successful.steps[j].action.id = v.observed_id[1]

SeedKnowledgeOrdered_witness ==
    /\ exec_status = "done"
    /\ exec_pos = 14
    /\ completed = {0, 1, 2, 3}
    /\ ~premature

(***************************************************************************)
(* The attack function of CVE-2021-3449 (src/src/term/op_impl.rs).         *)
(***************************************************************************)
\* Longest extension list handed to the function.
MaxExtensions == 3
\* Number of times the function is applied, each time to its last result.
MaxApplications == 2

\* ClientExtension values, each with the ExtensionType get_type() gives.
ClientExtension(typ, payload) == [typ |-> typ, payload |-> payload]
ExtensionPool ==
    {ClientExtension("ServerName", 0),
     ClientExtension("SignatureAlgorithms", 0),
     ClientExtension("SignatureAlgorithms", 1),
     ClientExtension("KeyShare", 0)}

RECURSIVE ExtensionLists(_)
ExtensionLists(n) ==
    IF n = 0 THEN {<<>>}
    ELSE LET shorter == ExtensionLists(n - 1)
         IN  shorter \cup
             {Append(l, e) : l \in {x \in shorter : Len(x) = n - 1}, e \in ExtensionPool}

\* into_iter().filter(predicate).collect_vec(), for the predicate of the
\* attack function: the elements that pass, in order.
RECURSIVE filter_collect(_)
filter_collect(list) ==
    IF list = <<>> THEN <<>>
    ELSE IF Head(list).typ # "SignatureAlgorithms"
         THEN <<Head(list)>> \o filter_collect(Tail(list))
         ELSE filter_collect(Tail(list))

\* The function with the filter applied to the Vec it is handed, only the
\* first SignatureAlgorithms extension being dropped.
op_attack_cve_2021_3449_first(exts) ==
    LET at == {i \in DOMAIN exts : exts[i].typ = "SignatureAlgorithms"}
        kept == IF at = {} THEN exts
                ELSE LET first == CHOOSE i \in at : \A j \in at : i <= j
                     IN  SubSeq(exts, 1, first - 1) \o SubSeq(exts, first + 1, Len(exts))
    IN  [extensions |-> kept, result |-> kept]

\* op_attack_cve_2021_3449(extensions: &Vec<ClientExtension>): the Vec is
\* cloned, the clone filtered; extensions is what the caller's Vec holds
\* after the call.
op_attack_cve_2021_3449(exts) ==
    [extensions |-> exts, result |-> filter_collect(exts)]

InitAttack ==
    /\ extensions \in ExtensionLists(MaxExtensions)
    /\ attack_original = extensions
    /\ attack_results = <<>>
    /\ MutationUnused
    /\ SignatureUntouched
    /\ NoAgentNamed
    /\ NoPut
    /\ NoEvaluation
    /\ NoExecution
    /\ NoRng
    /\ NoClaims
    /\ NoEvents

\* The function is applied to the extension list.
attack ==
    /\ attack_results = <<>>
    /\ LET out == op_attack_cve_2021_3449(extensions)
       IN  /\ extensions' = out.extensions
           /\ attack_results' = <<out.result>>
    /\ UNCHANGED <<attack_original, nonattack>>

\* The function is applied to what it returned last.
attack_again ==
    /\ attack_results # <<>>
    /\ Len(attack_results) < MaxApplications
    /\ LET out == op_attack_cve_2021_3449(attack_results[Len(attack_results)])
       IN  attack_results' = Append(attack_results, out.result)
    /\ UNCHANGED <<extensions, attack_original, nonattack>>

NextAttack == attack \/ attack_again

SpecAttack == InitAttack /\ [][NextAttack]_vars

\* The positions of the extensions of other types than SignatureAlgorithms.
OtherExtensions(exts) == {i \in DOMAIN exts : exts[i].typ # "SignatureAlgorithms"}

\* C23: the result of op_attack_cve_2021_3449 holds no SignatureAlgorithms
\* extension and holds all other extensions of the input in their original
\* order; applying it again changes nothing; the input list is not modified.
AttackStripsSignatureAlgorithms ==
    /\ extensions = attack_original
    /\ \A n \in DOMAIN attack_results :
           LET res == attack_results[n]
               others == OtherExtensions(attack_original)
           IN  /\ \A i \in DOMAIN res : res[i].typ # "SignatureAlgorithms"
               /\ Len(res) = Cardinality(others)
               /\ \A k \in DOMAIN res : res[k] = attack_original[Nth(others, k)]
               /\ res = attack_results[1]

AttackStripsSignatureAlgorithms_witness ==
    /\ Len(attack_results) = 2
    /\ Len(attack_original) = 3
    /\ attack_original[1].typ = "SignatureAlgorithms"
    /\ attack_original[3].typ = "SignatureAlgorithms"
    /\ attack_results[2] = <<attack_original[2]>>
    /\ attack_original[2].typ = "KeyShare"

(***************************************************************************)
(* The random byte generator of the OpenSSL PUT                            *)
(* (src/tlspuffin/src/openssl/deterministic.rs, OpenSSL::make_deterministic *)
(* in src/tlspuffin/src/openssl/mod.rs).                                   *)
(***************************************************************************)
\* Number of runs in which rand_bytes is called for the first two bytes.
MaxRandCalls == 3

\* The features that decide what make_deterministic is compiled to.
Features == {"deterministic", "openssl111"}

\* What rand_bytes fills a buffer of two bytes with: the bytes the seeded
\* generator gives first, and what an unseeded generator can give.
SeededBytes == <<70, 100>>
RandomBytes == {SeededBytes, <<13, 7>>, <<200, 1>>}

\* OpenSSL::make_deterministic(): set_openssl_deterministic() is compiled in
\* under cfg(all(feature = "deterministic", feature = "openssl111")); without
\* openssl111 a warning is logged; the generator is otherwise left as it is.
OpenSSL_make_deterministic(features, state) ==
    IF {"deterministic", "openssl111"} \subseteq features THEN "seeded" ELSE state

\* openssl::rand::rand_bytes(&mut [0; 2])
rand_bytes(state) == IF state = "seeded" THEN {SeededBytes} ELSE RandomBytes

InitRng ==
    /\ build \in SUBSET Features
    /\ rng = "random"
    /\ made_deterministic = FALSE
    /\ rand_outputs = <<>>
    /\ MutationUnused
    /\ SignatureUntouched
    /\ NoAgentNamed
    /\ NoPut
    /\ NoEvaluation
    /\ NoExecution
    /\ NoAttack
    /\ NoClaims
    /\ NoEvents

make_deterministic ==
    /\ ~made_deterministic
    /\ rand_outputs = <<>>
    /\ rng' = OpenSSL_make_deterministic(build, rng)
    /\ made_deterministic' = TRUE
    /\ UNCHANGED <<build, rand_outputs, nonrng>>

draw_rand_bytes ==
    /\ Len(rand_outputs) < MaxRandCalls
    /\ \E bytes \in rand_bytes(rng) : rand_outputs' = Append(rand_outputs, bytes)
    /\ UNCHANGED <<build, rng, made_deterministic, nonrng>>

NextRng == make_deterministic \/ draw_rand_bytes

SpecRng == InitRng /\ [][NextRng]_vars

\* C24: once make_deterministic has been called, the generator of the
\* library gives the same fixed bytes on every run (70, 100 first), in every
\* build in which the OpenSSL PUT is used.
MakeDeterministicFixesBytes ==
    made_deterministic =>
        \A i \in DOMAIN rand_outputs : rand_outputs[i] = SeededBytes

(***************************************************************************)
(* Terminal events (src/src/fuzzer/terminal_stats.rs): the input thread    *)
(* and the tick thread send into one channel, display receives from it.    *)
(***************************************************************************)
\* Number of keys read from stdin, and of events the channel holds at once.
MaxKeys == 2
MaxQueue == 3

Tick == "Tick"
Input(key) == key
Keys == {"q", "x"}

\* mpsc::Sender::send: Err when the Receiver is gone, else the event is
\* queued behind the ones already sent.
send(ch, alive, event) ==
    IF alive THEN [result |-> "Ok", channel |-> Append(ch, event)]
    ELSE [result |-> "Err", channel |-> ch]

\* A receive that takes the event sent last.
try_recv_newest(ch) ==
    IF ch = <<>>
    THEN [result |-> "Err(Empty)", event |-> "", channel |-> ch]
    ELSE [result |-> "Ok", event |-> ch[Len(ch)], channel |-> SubSeq(ch, 1, Len(ch) - 1)]

\* Events::next: self.rx.try_recv(), the oldest event or Err(Empty).
try_recv(ch) ==
    IF ch = <<>>
    THEN [result |-> "Err(Empty)", event |-> "", channel |-> ch]
    ELSE [result |-> "Ok", event |-> Head(ch), channel |-> Tail(ch)]

\* TerminalStats::new: the channel is made and the two threads are spawned.
InitEvents ==
    /\ channel = <<>>
    /\ rx_alive = TRUE
    /\ tick_pc = "send"
    /\ input_pc = "keys"
    /\ keys_read = 0
    /\ q_sent = 0
    /\ sigints = 0
    /\ displayed = NoDisplay
    /\ MutationUnused
    /\ SignatureUntouched
    /\ NoAgentNamed
    /\ NoPut
    /\ NoEvaluation
    /\ NoExecution
    /\ NoAttack
    /\ NoRng
    /\ NoClaims

\* The channel has no capacity; the model lets a sender wait while it holds
\* MaxQueue events and the Receiver exists.
Room == rx_alive => Len(channel) < MaxQueue

\* The input thread: stdin.keys() yields a key, which is sent; the thread
\* returns when the send fails.
input_key ==
    /\ input_pc = "keys"
    /\ keys_read < MaxKeys
    /\ Room
    /\ \E key \in Keys :
           LET sent == send(channel, rx_alive, Input(key))
           IN  /\ channel' = sent.channel
               /\ input_pc' = IF sent.result = "Err" THEN "stopped" ELSE "keys"
               /\ q_sent' = q_sent + (IF sent.result = "Ok" /\ key = "q" THEN 1 ELSE 0)
    /\ keys_read' = keys_read + 1
    /\ UNCHANGED <<rx_alive, tick_pc, sigints, displayed, nonevent>>

\* stdin.keys() yields an Err, which is passed over.
input_error ==
    /\ input_pc = "keys"
    /\ keys_read < MaxKeys
    /\ keys_read' = keys_read + 1
    /\ UNCHANGED <<channel, rx_alive, tick_pc, input_pc, q_sent, sigints, displayed, nonevent>>

\* stdin.keys() ends: the thread returns.
input_end ==
    /\ input_pc = "keys"
    /\ input_pc' = "stopped"
    /\ UNCHANGED <<channel, rx_alive, tick_pc, keys_read, q_sent, sigints, displayed, nonevent>>

\* The tick thread: tx.send(Event::Tick), break on Err, else sleep.
tick_send ==
    /\ tick_pc = "send"
    /\ Room
    /\ LET sent == send(channel, rx_alive, Tick)
       IN  /\ channel' = sent.channel
           /\ tick_pc' = IF sent.result = "Err" THEN "stopped" ELSE "sleep"
    /\ UNCHANGED <<rx_alive, input_pc, keys_read, q_sent, sigints, displayed, nonevent>>

\* thread::sleep(config.tick_rate) returns.
tick_sleep ==
    /\ tick_pc = "sleep"
    /\ tick_pc' = "send"
    /\ UNCHANGED <<channel, rx_alive, input_pc, keys_read, q_sent, sigints, displayed, nonevent>>

tick_thread == tick_send \/ tick_sleep

\* display: the terminal is drawn, then self.events.next() is called once
\* and SIGINT is raised for the key q; raise returns to display.
display ==
    /\ rx_alive
    /\ LET next == try_recv(channel)
       IN  /\ channel' = next.channel
           /\ sigints' = sigints + (IF next.result = "Ok" /\ next.event = Input("q") THEN 1 ELSE 0)
           /\ displayed' = [pending |-> Len(channel), result |-> next.result,
                            event |-> next.event]
    /\ UNCHANGED <<rx_alive, tick_pc, input_pc, keys_read, q_sent, nonevent>>

\* The TerminalStats is dropped and with it the Receiver and the events it
\* holds.
drop_events ==
    /\ rx_alive
    /\ rx_alive' = FALSE
    /\ channel' = <<>>
    /\ UNCHANGED <<tick_pc, input_pc, keys_read, q_sent, sigints, displayed, nonevent>>

NextEvents ==
    \/ input_key
    \/ input_error
    \/ input_end
    \/ tick_send
    \/ tick_sleep
    \/ display
    \/ drop_events

\* display keeps being called while the TerminalStats exists, and the tick
\* thread is scheduled; nothing is assumed of the keys.
SpecEvents ==
    InitEvents /\ [][NextEvents]_vars /\ WF_vars(display) /\ WF_vars(tick_thread)

\* C30: display can be called whatever the channel holds and takes at most
\* one event off it per call, none when none is pending; every q key the
\* input thread has sent is received and raises SIGINT while display keeps
\* being called; once the Receiver is dropped the tick thread stops.
EventHandling ==
    /\ [](rx_alive => ENABLED display)
    /\ [][display =>
            /\ Len(channel') >= Len(channel) - 1
            /\ channel = <<>> => (channel' = <<>> /\ sigints' = sigints)
            /\ sigints' <= sigints + 1]_vars
    /\ [](sigints <= q_sent)
    /\ \A n \in 1 .. MaxKeys : (q_sent >= n) ~> (sigints >= n \/ ~rx_alive)
    /\ (~rx_alive) ~> (tick_pc = "stopped")

\* Two q keys were sent behind a tick and both have raised SIGINT, display
\* was then called with nothing pending, and after the drop the tick thread
\* has stopped.
EventHandling_witness ==
    /\ q_sent = MaxKeys
    /\ sigints = MaxKeys
    /\ displayed.result = "Err(Empty)"
    /\ ~rx_alive
    /\ tick_pc = "stopped"

=============================================================================
